---- MODULE Spec2Model ----
(***************************************************************************)
(* Event Management API (src/app.py): sanitization helpers, the four       *)
(* entity CRUD handler sets and the media handlers, over a document store. *)
(*                                                                         *)
(* A Python str is a sequence of one-character tokens.  Characters that    *)
(* have no printable form are named: "NUL" is \x00, "SOH" is \x01, "DEL"   *)
(* is \x7f, "TAB" is \x09, "BSL" is the backslash.  An Optional value is   *)
(* NoneVal (None) or Some(v).                                              *)
(***************************************************************************)
EXTENDS Integers, Sequences, FiniteSets, TLC

\* ---------------------------------------------------------------- bounds
\* Longest short string enumerated as an input of the sanitizers.
MaxStrLen == 3
\* Number of documents the store may ever be asked to insert.
MaxDocs == 2
\* Largest timestamp datetime.now(UTC) may return.
MaxTime == 1
\* Clients with a request in progress at the same time.
NumClients == 2

\* ------------------------------------------------------ program constants
\* len(value) > 5000 in sanitize_string
MaxStringLength == 5000
\* len(filename) > 255 in sanitize_filename
MaxFilenameLength == 255

\* ------------------------------------------------------------- strings
Rep(c, n) == [i \in 1..n |-> c]

\* Optional[T]: None, or Some(v)
NoneVal == <<>>
Some(v) == <<v>>

StringsUpTo(chars, n) == UNION {[1..k -> chars] : k \in 0..n}

\* str.isspace() characters of the modelled alphabet
Whitespace == {" ", "TAB"}

\* value.replace('\x00', '')
RemoveNul(s) == SelectSeq(s, LAMBDA c : c # "NUL")

\* str.strip(): drop leading and trailing whitespace
Strip(s) ==
    LET n == Len(s)
        lead == Cardinality({i \in 1..n : \A j \in 1..i : s[j] \in Whitespace})
        trail == Cardinality({i \in 1..n : \A j \in i..n : s[j] \in Whitespace})
    IN  IF lead = n THEN <<>> ELSE SubSeq(s, lead + 1, n - trail)

\* Faulty variant, for comparison: the length ceiling is tested after trimming instead of before.
sanitize_string_trim_first(value) ==
    LET v == Strip(RemoveNul(value))
    IN  IF Len(v) > MaxStringLength
        THEN [ok |-> FALSE, value |-> <<>>]
        ELSE [ok |-> TRUE, value |-> v]

\* sanitize_string for a str argument: [ok |-> FALSE] is the ValueError.
sanitize_string(value) ==
    LET v == RemoveNul(value)
    IN  IF Len(v) > MaxStringLength
        THEN [ok |-> FALSE, value |-> <<>>]
        ELSE [ok |-> TRUE, value |-> Strip(v)]

\* ------------------------------------------------------------ filenames
\* the class [<>:"/\\|?*\x00-\x1f] of the re.sub in sanitize_filename
DangerousChars == {"<", ">", ":", "QUOTE", "/", "BSL", "|", "?", "*",
                   "NUL", "SOH", "TAB"}

\* Path(filename).name on a POSIX path: the last component that is neither
\* empty nor ".", or "" when there is none.
RECURSIVE LastComponent(_, _)
LastComponent(s, e) ==
    IF e = 0 THEN <<>>
    ELSE IF s[e] = "/" THEN LastComponent(s, e - 1)
    ELSE LET slashes == {i \in 1..e : s[i] = "/"}
             start == IF slashes = {} THEN 1
                      ELSE 1 + CHOOSE i \in slashes : \A j \in slashes : j <= i
             comp == SubSeq(s, start, e)
         IN  IF comp = <<".">> THEN LastComponent(s, start - 1) ELSE comp

PathName(s) == LastComponent(s, Len(s))

\* str.replace('..', ''): the non-overlapping occurrences, found left to
\* right, are removed.  In a run of dots the pairs (1st, 2nd), (3rd, 4th), ...
\* go, so a dot goes when an odd number of dots of its run precede it, or
\* when none or an even number do and a dot follows it.
RemoveDotDot(s) ==
    LET DotsBefore(i) ==
            LET others == {j \in 1..(i - 1) : s[j] # "."}
            IN  IF others = {} THEN i - 1
                ELSE i - 1 - CHOOSE j \in others : \A k \in others : k <= j
        Removed(i) ==
            /\ s[i] = "."
            /\ \/ DotsBefore(i) % 2 = 1
               \/ i < Len(s) /\ s[i + 1] = "."
        marked == [i \in 1..Len(s) |-> IF Removed(i) THEN "removed" ELSE s[i]]
    IN  SelectSeq(marked, LAMBDA c : c # "removed")

DefaultFilename == <<"f", "i", "l", "e">>

\* Faulty variant, for comparison: the '..' removal is left out.
sanitize_filename_keep_dotdot(filename) ==
    LET name == SelectSeq(PathName(filename), LAMBDA c : c \notin DangerousChars)
        nonempty == IF name = <<>> THEN DefaultFilename ELSE name
    IN  IF Len(nonempty) > MaxFilenameLength
        THEN SubSeq(nonempty, 1, MaxFilenameLength)
        ELSE nonempty

sanitize_filename(filename) ==
    LET name == PathName(filename)
        safe == SelectSeq(name, LAMBDA c : c \notin DangerousChars)
        flat == RemoveDotDot(safe)
        nonempty == IF flat = <<>> THEN DefaultFilename ELSE flat
    IN  IF Len(nonempty) > MaxFilenameLength
        THEN SubSeq(nonempty, 1, MaxFilenameLength)
        ELSE nonempty

\* ---------------------------------------------------------- identifiers
HexLower == {"0", "1", "2", "3", "4", "5", "6", "7", "8", "9",
             "a", "b", "c", "d", "e", "f"}
HexUpper == {"A", "B", "C", "D", "E", "F"}
LowerOf(c) ==
    CASE c = "A" -> "a" [] c = "B" -> "b" [] c = "C" -> "c"
      [] c = "D" -> "d" [] c = "E" -> "e" [] c = "F" -> "f"
      [] OTHER -> c

\* length of the hex form of a bson ObjectId
ObjectIdHexLen == 24

\* bson ObjectId(id_string): a 24-character hex string is accepted, in either
\* case, and anything else raises InvalidId.  An ObjectId is [hex |-> h], h
\* its lower-case hex form; str(obj_id) returns h.
ObjectIdValid(id_string) ==
    /\ Len(id_string) = ObjectIdHexLen
    /\ \A i \in 1..Len(id_string) : id_string[i] \in HexLower \cup HexUpper
ObjectIdOf(id_string) ==
    [hex |-> [i \in 1..Len(id_string) |-> LowerOf(id_string[i])]]
Str(oid) == oid.hex

\* Faulty variant, for comparison: every string is taken as an identifier, nothing is rejected.
validate_object_id_accept_all(id_string) ==
    [ok |-> TRUE, oid |-> ObjectIdOf(id_string)]

\* validate_object_id: [ok |-> FALSE] is HTTPException(400, "Invalid ID format")
validate_object_id(id_string) ==
    IF ObjectIdValid(id_string)
    THEN [ok |-> TRUE, oid |-> ObjectIdOf(id_string)]
    ELSE [ok |-> FALSE, oid |-> [hex |-> <<>>]]

\* the k-th ObjectId the driver generates, and the same identifier as a
\* client may write it in upper case
HexLetters == <<"a", "b", "c", "d", "e", "f">>
HexLettersUpper == <<"A", "B", "C", "D", "E", "F">>
NthObjectId(k) == [hex |-> Rep("0", ObjectIdHexLen - 1) \o <<HexLetters[k]>>]
NthIdLower(k) == Str(NthObjectId(k))
NthIdUpper(k) == Rep("0", ObjectIdHexLen - 1) \o <<HexLettersUpper[k]>>

MalformedIds == { <<"x">>,
                  Rep("0", ObjectIdHexLen - 1) \o <<"g">>,
                  Rep("0", ObjectIdHexLen + 1) }
\* identifier strings a client sends in a path
IdStrings == {NthIdLower(1), NthIdUpper(1), NthIdLower(2)} \cup MalformedIds

\* ------------------------------------------------------- field validators
Digits == {"0", "1", "2", "3", "4", "5", "6", "7", "8", "9"}
Letters == {"a", "b", "c", "d", "e", "f", "o", "n", "t", "x", "v", "E", "H"}
            \cup HexUpper
AllIn(s, lo, hi, chars) == \A i \in lo..hi : s[i] \in chars

\* re.match(r'^[a-zA-Z0-9._%+-]+@[a-zA-Z0-9.-]+\.[a-zA-Z]{2,}$', v)
EmailLocalChars == Letters \cup Digits \cup {".", "_", "%", "+", "-"}
EmailDomainChars == Letters \cup Digits \cup {".", "-"}
EmailMatches(v) ==
    \E at \in 2..Len(v) : \E dot \in (at + 2)..(Len(v) - 2) :
        /\ v[at] = "@"
        /\ v[dot] = "."
        /\ AllIn(v, 1, at - 1, EmailLocalChars)
        /\ AllIn(v, at + 1, dot - 1, EmailDomainChars)
        /\ AllIn(v, dot + 1, Len(v), Letters)

\* re.match(r'^[\d+\-() ]{7,}$', v)
PhoneChars == Digits \cup {"+", "-", "(", ")", " "}
PhoneMinLength == 7
PhoneMatches(v) == Len(v) >= PhoneMinLength /\ AllIn(v, 1, Len(v), PhoneChars)

\* datetime.fromisoformat(v), for the calendar-date form YYYY-MM-DD
DigitValue(c) == CHOOSE n \in 0..9 : <<"0", "1", "2", "3", "4", "5", "6", "7", "8", "9">>[n + 1] = c
IsoDateLength == 10
FromIsoFormatOk(v) ==
    /\ Len(v) = IsoDateLength
    /\ v[5] = "-" /\ v[8] = "-"
    /\ \A i \in {1, 2, 3, 4, 6, 7, 9, 10} : v[i] \in Digits
    /\ LET month == 10 * DigitValue(v[6]) + DigitValue(v[7])
           day == 10 * DigitValue(v[9]) + DigitValue(v[10])
           year == 1000 * DigitValue(v[1]) + 100 * DigitValue(v[2])
                   + 10 * DigitValue(v[3]) + DigitValue(v[4])
           leap == year % 4 = 0 /\ (year % 100 # 0 \/ year % 400 = 0)
           days == IF month = 2 THEN (IF leap THEN 29 ELSE 28)
                   ELSE IF month \in {4, 6, 9, 11} THEN 30 ELSE 31
       IN  year >= 1 /\ month \in 1..12 /\ day \in 1..days

\* Each model is built from a JSON body whose values have the declared types.
\* The result is [ok |-> TRUE, model |-> m] or, when a validator raises,
\* [ok |-> FALSE]; m is what model_dump() returns.

\* Event(**body)
Event(body) ==
    LET name == sanitize_string(body.name)
        description == sanitize_string(body.description)
        date == sanitize_string(body.date)
    IN  IF /\ name.ok /\ description.ok /\ date.ok
           /\ FromIsoFormatOk(date.value)
           /\ body.max_attendees >= 0
        THEN [ok |-> TRUE,
              model |-> [name |-> name.value,
                         description |-> description.value,
                         date |-> date.value,
                         venue_id |-> body.venue_id,
                         max_attendees |-> body.max_attendees]]
        ELSE [ok |-> FALSE, model |-> <<>>]

\* Attendee(**body); phone is Optional and defaults to None, and the phone
\* validator is not run on the default
Attendee(body) ==
    LET name == sanitize_string(body.name)
        email == sanitize_string(body.email)
        phone == IF body.phone = NoneVal
                 THEN [ok |-> TRUE, value |-> <<>>]
                 ELSE sanitize_string(body.phone[1])
    IN  IF /\ name.ok /\ email.ok /\ phone.ok
           /\ EmailMatches(email.value)
           /\ body.phone # NoneVal => PhoneMatches(phone.value)
        THEN [ok |-> TRUE,
              model |-> [name |-> name.value,
                         email |-> email.value,
                         phone |-> IF body.phone = NoneVal THEN NoneVal
                                   ELSE Some(phone.value)]]
        ELSE [ok |-> FALSE, model |-> <<>>]

\* Faulty variant, for comparison: the address is not among the fields of sanitize_venue_fields.
Venue_address_not_sanitized(body) ==
    LET name == sanitize_string(body.name)
    IN  IF name.ok /\ body.capacity >= 0
        THEN [ok |-> TRUE,
              model |-> [name |-> name.value,
                         address |-> body.address,
                         capacity |-> body.capacity]]
        ELSE [ok |-> FALSE, model |-> <<>>]

\* Venue(**body)
Venue(body) ==
    LET name == sanitize_string(body.name)
        address == sanitize_string(body.address)
    IN  IF name.ok /\ address.ok /\ body.capacity >= 0
        THEN [ok |-> TRUE,
              model |-> [name |-> name.value,
                         address |-> address.value,
                         capacity |-> body.capacity]]
        ELSE [ok |-> FALSE, model |-> <<>>]

\* Booking(**body)
Booking(body) ==
    LET ticket_type == sanitize_string(body.ticket_type)
    IN  IF ticket_type.ok /\ body.quantity > 0
        THEN [ok |-> TRUE,
              model |-> [event_id |-> body.event_id,
                         attendee_ids |-> body.attendee_ids,
                         ticket_type |-> ticket_type.value,
                         quantity |-> body.quantity]]
        ELSE [ok |-> FALSE, model |-> <<>>]

\* ------------------------------------------------------------ the store
EntityCollections == {"events", "attendees", "venues", "bookings"}
MediaCollections == {"event_posters", "promo_videos", "venue_photos"}
Collections == EntityCollections \cup MediaCollections

VARIABLES
    db,           \* db[c]: the documents of collection c, each with its _id
    oid_counter,  \* number of ObjectIds generated so far
    pc,           \* "serve", the step of a sanitizer run, or pc[p]: the
                  \* statement the request of client p has reached
    arg,          \* sanitizer run: the input string; arg[p]: the request
    out           \* sanitizer run: the results so far; out[p]: the result
                  \* of the store call and the status answered to client p

vars == <<db, oid_counter, pc, arg, out>>

\* collection.find_one({"_id": oid}): the matching documents (none or one)
find_one(c, oid) == {d \in db[c] : d._id = oid}

\* collection.find(): every document
find(c) == db[c]

\* collection.insert_one(doc): the driver adds a fresh _id
insert_one(c, doc) ==
    LET oid == NthObjectId(oid_counter + 1)
        stored == [k \in DOMAIN doc \cup {"_id"} |->
                      IF k = "_id" THEN oid ELSE doc[k]]
    IN  [inserted_id |-> oid, db |-> [db EXCEPT ![c] = @ \cup {stored}]]

\* Faulty variant, for comparison: a $set that skips a phone whose value is None.
update_one_skip_none(c, oid, fields) ==
    LET set(d) == [k \in DOMAIN d \cup DOMAIN fields |->
                      IF k \in DOMAIN fields
                         /\ ~(k = "phone" /\ fields[k] = NoneVal)
                      THEN fields[k] ELSE d[k]]
    IN  [matched_count |-> Cardinality(find_one(c, oid)),
         db |-> [db EXCEPT ![c] =
                    {IF d._id = oid THEN set(d) ELSE d : d \in @}]]

\* Faulty variant, for comparison: update_one(..., upsert=True) inserts when nothing matches.
update_one_upsert(c, oid, fields) ==
    LET set(d) == [k \in DOMAIN d \cup DOMAIN fields |->
                      IF k \in DOMAIN fields THEN fields[k] ELSE d[k]]
        new == [k \in DOMAIN fields \cup {"_id"} |->
                   IF k = "_id" THEN oid ELSE fields[k]]
    IN  IF find_one(c, oid) = {}
        THEN [matched_count |-> 1, db |-> [db EXCEPT ![c] = @ \cup {new}]]
        ELSE [matched_count |-> 1,
              db |-> [db EXCEPT ![c] =
                         {IF d._id = oid THEN set(d) ELSE d : d \in @}]]

\* Faulty variant, for comparison: replace_one, the matched document becomes
\* the given fields and keeps nothing but its _id.
update_one_replace(c, oid, fields) ==
    LET new(d) == [k \in DOMAIN fields \cup {"_id"} |->
                      IF k = "_id" THEN d._id ELSE fields[k]]
    IN  [matched_count |-> Cardinality(find_one(c, oid)),
         db |-> [db EXCEPT ![c] =
                    {IF d._id = oid THEN new(d) ELSE d : d \in @}]]

\* collection.update_one({"_id": oid}, {"$set": fields})
update_one(c, oid, fields) ==
    LET set(d) == [k \in DOMAIN d \cup DOMAIN fields |->
                      IF k \in DOMAIN fields THEN fields[k] ELSE d[k]]
    IN  [matched_count |-> Cardinality(find_one(c, oid)),
         db |-> [db EXCEPT ![c] =
                    {IF d._id = oid THEN set(d) ELSE d : d \in @}]]

\* Faulty variant, for comparison: the delete reports a deletion but removes nothing.
delete_one_keep(c, oid) ==
    [deleted_count |-> Cardinality(find_one(c, oid)), db |-> db]

\* Faulty variant, for comparison: the delete cascades to the media records
\* whose owner reference is the deleted identifier.
delete_one_cascade(c, oid) ==
    [deleted_count |-> Cardinality(find_one(c, oid)),
     db |-> [k \in Collections |->
                IF k = c THEN db[k] \ find_one(c, oid)
                ELSE IF k \in {"event_posters", "promo_videos"}
                THEN {d \in db[k] : d.event_id # Str(oid)}
                ELSE IF k = "venue_photos"
                THEN {d \in db[k] : d.venue_id # Str(oid)}
                ELSE db[k]]]

\* collection.delete_one({"_id": oid})
delete_one(c, oid) ==
    [deleted_count |-> Cardinality(find_one(c, oid)),
     db |-> [db EXCEPT ![c] = @ \ find_one(c, oid)]]

\* event["_id"] = str(event["_id"])
StringifyId(doc) == [doc EXCEPT !._id = Str(@)]

\* ------------------------------------------------------- handler results
\* What a handler does: its response, the store calls it made, the store
\* and the ObjectId counter it leaves.
Outcome(status, body, made, store, counter) ==
    [resp |-> [status |-> status, body |-> body],
     calls |-> made, db |-> store, oid_counter |-> counter]

\* FastAPI answers 422 and does not call the handler when the body does not
\* build the handler's model.
ValidationError == Outcome(422, "validation error", <<>>, db, oid_counter)

\* raise HTTPException(status_code, detail)
HTTPException(status, detail, made) ==
    Outcome(status, [detail |-> detail], made, db, oid_counter)

InvalidIdFormat == HTTPException(400, "Invalid ID format", <<>>)

\* POST /<kind>s: v is the handler's model, doc the document it builds
create_entity(c, v, doc, message) ==
    IF ~v.ok THEN ValidationError
    ELSE LET result == insert_one(c, doc)
         IN  Outcome(200,
                     [message |-> message, id |-> Str(result.inserted_id)],
                     <<"insert_one">>, result.db, oid_counter + 1)

\* GET /<kind>s
list_entities(c) ==
    Outcome(200, {StringifyId(d) : d \in find(c)}, <<"find">>, db, oid_counter)

\* GET /<kind>s/{id}
get_entity(c, id_string, not_found) ==
    LET obj_id == validate_object_id(id_string)
        found == find_one(c, obj_id.oid)
    IN  IF ~obj_id.ok THEN InvalidIdFormat
        ELSE IF found = {} THEN HTTPException(404, not_found, <<"find_one">>)
        ELSE Outcome(200, StringifyId(CHOOSE d \in found : TRUE),
                     <<"find_one">>, db, oid_counter)

\* PUT /<kind>s/{id}
update_entity(c, id_string, v, message, not_found) ==
    LET obj_id == validate_object_id(id_string)
        result == update_one(c, obj_id.oid, v.model)
    IN  IF ~v.ok THEN ValidationError
        ELSE IF ~obj_id.ok THEN InvalidIdFormat
        ELSE IF result.matched_count = 0
        THEN Outcome(404, [detail |-> not_found], <<"update_one">>,
                     result.db, oid_counter)
        ELSE Outcome(200, [message |-> message, id |-> id_string],
                     <<"update_one">>, result.db, oid_counter)

\* Faulty variant, for comparison: a document that a booking or a media
\* record refers to is not deleted, the answer is 409.
delete_entity_restrict(c, id_string, message, not_found) ==
    LET obj_id == validate_object_id(id_string)
        result == delete_one(c, obj_id.oid)
        referred ==
            \/ \E d \in db["bookings"] \cup db["event_posters"] \cup db["promo_videos"] :
                  d.event_id = Str(obj_id.oid)
            \/ \E d \in db["venue_photos"] : d.venue_id = Str(obj_id.oid)
    IN  IF ~obj_id.ok THEN InvalidIdFormat
        ELSE IF referred THEN HTTPException(409, "still referred to", <<>>)
        ELSE IF result.deleted_count = 0
        THEN Outcome(404, [detail |-> not_found], <<"delete_one">>,
                     result.db, oid_counter)
        ELSE Outcome(200, [message |-> message, id |-> id_string],
                     <<"delete_one">>, result.db, oid_counter)

\* DELETE /<kind>s/{id}
delete_entity(c, id_string, message, not_found) ==
    LET obj_id == validate_object_id(id_string)
        result == delete_one(c, obj_id.oid)
    IN  IF ~obj_id.ok THEN InvalidIdFormat
        ELSE IF result.deleted_count = 0
        THEN Outcome(404, [detail |-> not_found], <<"delete_one">>,
                     result.db, oid_counter)
        ELSE Outcome(200, [message |-> message, id |-> id_string],
                     <<"delete_one">>, result.db, oid_counter)

\* ------------------------------------------------------- media handlers
\* file.filename or "file"
FilenameOrDefault(file) ==
    IF file.filename = NoneVal \/ file.filename = Some(<<>>)
    THEN DefaultFilename ELSE file.filename[1]

\* not file.filename
NoFilename(file) == file.filename = NoneVal \/ file.filename = Some(<<>>)

\* POST /upload_<kind>/{id}; checks tells whether the handler has
\* the "if not file.filename: raise ValueError" statement
upload_media(c, owner_field, media_type, id_string, file, now, checks, message, failure) ==
    LET obj_id == validate_object_id(id_string)
        media_doc == (owner_field :> Str(obj_id.oid))
                     @@ [filename |-> sanitize_filename(FilenameOrDefault(file)),
                         content_type |-> file.content_type,
                         media_type |-> media_type,
                         content |-> file.content,
                         uploaded_at |-> now]
        result == insert_one(c, media_doc)
    IN  IF ~obj_id.ok THEN InvalidIdFormat
        ELSE IF checks /\ NoFilename(file)
        THEN HTTPException(400, <<failure, "Filename is required">>, <<>>)
        ELSE Outcome(200,
                     [message |-> message, id |-> Str(result.inserted_id)],
                     <<"insert_one">>, result.db, oid_counter + 1)

\* the sequences without repetition of all the elements of S
Orderings(S) ==
    {q \in [1..Cardinality(S) -> S] :
        \A i, j \in 1..Cardinality(S) : i # j => q[i] # q[j]}

\* Faulty variant, for comparison: the sort is ascending, oldest upload first.
find_sorted_oldest_first(c, owner_field, owner) ==
    {q \in Orderings({d \in db[c] : d[owner_field] = owner}) :
        \A i \in 1..(Len(q) - 1) : q[i].uploaded_at <= q[i + 1].uploaded_at}

\* list(collection.find({owner_field: owner}, sort=[("uploaded_at", -1)])):
\* every order the store may return, documents of equal time in any order
find_sorted(c, owner_field, owner) ==
    {q \in Orderings({d \in db[c] : d[owner_field] = owner}) :
        \A i \in 1..(Len(q) - 1) : q[i].uploaded_at >= q[i + 1].uploaded_at}

\* the metadata entry of one media document
MediaMetadata(d, url_prefix) ==
    [id |-> Str(d._id),
     filename |-> d.filename,
     content_type |-> d.content_type,
     uploaded_at |-> d.uploaded_at,
     download_url |-> <<url_prefix, Str(d._id)>>]

\* GET /<kind>/{owner id}; found is the list the store returned
list_media(c, id_string, found, url_prefix, not_found) ==
    LET obj_id == validate_object_id(id_string)
    IN  IF ~obj_id.ok THEN InvalidIdFormat
        ELSE IF found = <<>> THEN HTTPException(404, not_found, <<"find">>)
        ELSE Outcome(200,
                     [i \in 1..Len(found) |-> MediaMetadata(found[i], url_prefix)],
                     <<"find">>, db, oid_counter)

\* GET /media/<kind>/{id}
download_media(c, id_string, not_found) ==
    LET obj_id == validate_object_id(id_string)
        found == find_one(c, obj_id.oid)
        d == CHOOSE x \in found : TRUE
    IN  IF ~obj_id.ok THEN InvalidIdFormat
        ELSE IF found = {} THEN HTTPException(404, not_found, <<"find_one">>)
        ELSE Outcome(200,
                     [content |-> d.content,
                      media_type |-> d.content_type,
                      content_disposition |-> <<"attachment; filename=", d.filename>>],
                     <<"find_one">>, db, oid_counter)

\* ------------------------------------------------------------- requests
Date1 == <<"2", "0", "2", "6", "-", "0", "1", "-", "0", "2">>
Date2 == <<" ", "2", "0", "2", "4", "-", "0", "2", "-", "2", "9">>
Email1 == <<"a", "@", "b", ".", "c", "o">>
Email2 == <<"x", "@", "b", ".", "c", "o", " ">>
BadEmail == <<"n", "o", "t", "-", "a", "n">>
Phone1 == <<"5", "5", "5", "1", "2", "3", "4">>
BadPhone == <<"1", "2", "3">>

EventBodies ==
    { [name |-> <<"E">>, description |-> <<"d">>, date |-> Date1,
       venue_id |-> NthIdLower(1), max_attendees |-> 5],
      [name |-> <<" ", "H", "NUL">>, description |-> <<>>, date |-> Date2,
       venue_id |-> <<" ", "v">>, max_attendees |-> 0],
      [name |-> <<"E">>, description |-> <<"d">>, date |-> <<"x">>,
       venue_id |-> <<"v">>, max_attendees |-> 5],
      [name |-> <<"E">>, description |-> <<"d">>, date |-> Date1,
       venue_id |-> <<"v">>, max_attendees |-> -1] }

AttendeeBodies ==
    { [name |-> <<"a">>, email |-> Email1, phone |-> Some(Phone1)],
      [name |-> <<"TAB", "b">>, email |-> Email2, phone |-> NoneVal],
      [name |-> <<"a">>, email |-> BadEmail, phone |-> NoneVal],
      [name |-> <<"a">>, email |-> Email1, phone |-> Some(BadPhone)] }

VenueBodies ==
    { [name |-> <<"H">>, address |-> <<"1", " ", "M">>, capacity |-> 100],
      [name |-> <<" ", "H", " ">>, address |-> <<"x", "NUL">>, capacity |-> 0],
      [name |-> <<"H">>, address |-> <<"x">>, capacity |-> -1] }

BookingBodies ==
    { [event_id |-> NthIdLower(1), attendee_ids |-> <<NthIdLower(2)>>,
       ticket_type |-> <<"t">>, quantity |-> 1],
      [event_id |-> <<" ", "e">>, attendee_ids |-> <<>>,
       ticket_type |-> <<" ", "v", " ">>, quantity |-> 2],
      [event_id |-> <<"e">>, attendee_ids |-> <<>>,
       ticket_type |-> <<"t">>, quantity |-> 0] }

\* the multipart file of an upload: client filename, declared content type, bytes
UploadFiles ==
    { [filename |-> Some(<<".", ".", "/", "s", ".", "j">>),
       content_type |-> Some(<<"i">>), content |-> <<1>>],
      [filename |-> Some(<<>>), content_type |-> NoneVal, content |-> <<2>>],
      [filename |-> NoneVal, content_type |-> NoneVal, content |-> <<2>>] }

\* the model FastAPI builds from each body before it calls a handler
EventModel == [body \in EventBodies |-> Event(body)]
AttendeeModel == [body \in AttendeeBodies |-> Attendee(body)]
VenueModel == [body \in VenueBodies |-> Venue(body)]
BookingModel == [body \in BookingBodies |-> Booking(body)]

\* values of datetime.now(UTC)
Times == 0..MaxTime

\* ------------------------------------------------------ entity endpoints
\* Each endpoint is an operator from its inputs to its outcome (name_), and
\* an action (name) that serves one request with any of the inputs: what the
\* handler leaves becomes the state.  The response and the store calls are
\* part of the outcome, not of the state.

create_event_(body) ==
    create_entity("events", EventModel[body], EventModel[body].model, "Event created")
create_event == \E body \in EventBodies :
        LET o == create_event_(body)
        IN  /\ pc = "serve" /\ o.oid_counter <= MaxDocs
            /\ db' = o.db /\ oid_counter' = o.oid_counter
            /\ UNCHANGED <<pc, arg, out>>

get_events_ == list_entities("events")
get_events ==
    LET o == get_events_
        IN  /\ pc = "serve" /\ o.oid_counter <= MaxDocs
            /\ db' = o.db /\ oid_counter' = o.oid_counter
            /\ UNCHANGED <<pc, arg, out>>

get_event_(id) == get_entity("events", id, "Event not found")
get_event == \E id \in IdStrings :
        LET o == get_event_(id)
        IN  /\ pc = "serve" /\ o.oid_counter <= MaxDocs
            /\ db' = o.db /\ oid_counter' = o.oid_counter
            /\ UNCHANGED <<pc, arg, out>>

update_event_(id, body) ==
    update_entity("events", id, EventModel[body], "Event updated", "Event not found")
update_event == \E id \in IdStrings, body \in EventBodies :
        LET o == update_event_(id, body)
        IN  /\ pc = "serve" /\ o.oid_counter <= MaxDocs
            /\ db' = o.db /\ oid_counter' = o.oid_counter
            /\ UNCHANGED <<pc, arg, out>>

delete_event_(id) == delete_entity("events", id, "Event deleted", "Event not found")
delete_event == \E id \in IdStrings :
        LET o == delete_event_(id)
        IN  /\ pc = "serve" /\ o.oid_counter <= MaxDocs
            /\ db' = o.db /\ oid_counter' = o.oid_counter
            /\ UNCHANGED <<pc, arg, out>>

register_attendee_(body, now) ==
    create_entity("attendees", AttendeeModel[body], AttendeeModel[body].model @@ ("registered_at" :> now),
                  "Attendee registered")
register_attendee == \E body \in AttendeeBodies, now \in Times :
        LET o == register_attendee_(body, now)
        IN  /\ pc = "serve" /\ o.oid_counter <= MaxDocs
            /\ db' = o.db /\ oid_counter' = o.oid_counter
            /\ UNCHANGED <<pc, arg, out>>

get_attendees_ == list_entities("attendees")
get_attendees ==
        LET o == get_attendees_
        IN  /\ pc = "serve" /\ o.oid_counter <= MaxDocs
            /\ db' = o.db /\ oid_counter' = o.oid_counter
            /\ UNCHANGED <<pc, arg, out>>

get_attendee_(id) == get_entity("attendees", id, "Attendee not found")
get_attendee == \E id \in IdStrings :
        LET o == get_attendee_(id)
        IN  /\ pc = "serve" /\ o.oid_counter <= MaxDocs
            /\ db' = o.db /\ oid_counter' = o.oid_counter
            /\ UNCHANGED <<pc, arg, out>>

update_attendee_(id, body) ==
    update_entity("attendees", id, AttendeeModel[body], "Attendee updated", "Attendee not found")
update_attendee == \E id \in IdStrings, body \in AttendeeBodies :
        LET o == update_attendee_(id, body)
        IN  /\ pc = "serve" /\ o.oid_counter <= MaxDocs
            /\ db' = o.db /\ oid_counter' = o.oid_counter
            /\ UNCHANGED <<pc, arg, out>>

delete_attendee_(id) == delete_entity("attendees", id, "Attendee deleted", "Attendee not found")
delete_attendee == \E id \in IdStrings :
        LET o == delete_attendee_(id)
        IN  /\ pc = "serve" /\ o.oid_counter <= MaxDocs
            /\ db' = o.db /\ oid_counter' = o.oid_counter
            /\ UNCHANGED <<pc, arg, out>>

create_venue_(body, now) ==
    create_entity("venues", VenueModel[body], VenueModel[body].model @@ ("created_at" :> now),
                  "Venue created")
create_venue == \E body \in VenueBodies, now \in Times :
        LET o == create_venue_(body, now)
        IN  /\ pc = "serve" /\ o.oid_counter <= MaxDocs
            /\ db' = o.db /\ oid_counter' = o.oid_counter
            /\ UNCHANGED <<pc, arg, out>>

get_venues_ == list_entities("venues")
get_venues ==
        LET o == get_venues_
        IN  /\ pc = "serve" /\ o.oid_counter <= MaxDocs
            /\ db' = o.db /\ oid_counter' = o.oid_counter
            /\ UNCHANGED <<pc, arg, out>>

get_venue_(id) == get_entity("venues", id, "Venue not found")
get_venue == \E id \in IdStrings :
        LET o == get_venue_(id)
        IN  /\ pc = "serve" /\ o.oid_counter <= MaxDocs
            /\ db' = o.db /\ oid_counter' = o.oid_counter
            /\ UNCHANGED <<pc, arg, out>>

update_venue_(id, body) ==
    update_entity("venues", id, VenueModel[body], "Venue updated", "Venue not found")
update_venue == \E id \in IdStrings, body \in VenueBodies :
        LET o == update_venue_(id, body)
        IN  /\ pc = "serve" /\ o.oid_counter <= MaxDocs
            /\ db' = o.db /\ oid_counter' = o.oid_counter
            /\ UNCHANGED <<pc, arg, out>>

delete_venue_(id) == delete_entity("venues", id, "Venue deleted", "Venue not found")
delete_venue == \E id \in IdStrings :
        LET o == delete_venue_(id)
        IN  /\ pc = "serve" /\ o.oid_counter <= MaxDocs
            /\ db' = o.db /\ oid_counter' = o.oid_counter
            /\ UNCHANGED <<pc, arg, out>>

create_booking_(body, now) ==
    create_entity("bookings", BookingModel[body], BookingModel[body].model @@ ("booked_at" :> now),
                  "Booking created")
create_booking == \E body \in BookingBodies, now \in Times :
        LET o == create_booking_(body, now)
        IN  /\ pc = "serve" /\ o.oid_counter <= MaxDocs
            /\ db' = o.db /\ oid_counter' = o.oid_counter
            /\ UNCHANGED <<pc, arg, out>>

get_bookings_ == list_entities("bookings")
get_bookings ==
        LET o == get_bookings_
        IN  /\ pc = "serve" /\ o.oid_counter <= MaxDocs
            /\ db' = o.db /\ oid_counter' = o.oid_counter
            /\ UNCHANGED <<pc, arg, out>>

get_booking_(id) == get_entity("bookings", id, "Booking not found")
get_booking == \E id \in IdStrings :
        LET o == get_booking_(id)
        IN  /\ pc = "serve" /\ o.oid_counter <= MaxDocs
            /\ db' = o.db /\ oid_counter' = o.oid_counter
            /\ UNCHANGED <<pc, arg, out>>

update_booking_(id, body) ==
    update_entity("bookings", id, BookingModel[body], "Booking updated", "Booking not found")
update_booking == \E id \in IdStrings, body \in BookingBodies :
        LET o == update_booking_(id, body)
        IN  /\ pc = "serve" /\ o.oid_counter <= MaxDocs
            /\ db' = o.db /\ oid_counter' = o.oid_counter
            /\ UNCHANGED <<pc, arg, out>>

delete_booking_(id) == delete_entity("bookings", id, "Booking deleted", "Booking not found")
delete_booking == \E id \in IdStrings :
        LET o == delete_booking_(id)
        IN  /\ pc = "serve" /\ o.oid_counter <= MaxDocs
            /\ db' = o.db /\ oid_counter' = o.oid_counter
            /\ UNCHANGED <<pc, arg, out>>

\* ------------------------------------------------------- media endpoints
\* A list endpoint has one outcome for each order the store may return.

upload_event_poster_(id, file, now) ==
    upload_media("event_posters", "event_id", "poster", id, file, now, TRUE,
                 "Event poster uploaded", "Failed to upload poster: ")
upload_event_poster ==
    \E id \in IdStrings, file \in UploadFiles, now \in Times :
        LET o == upload_event_poster_(id, file, now)
        IN  /\ pc = "serve" /\ o.oid_counter <= MaxDocs
            /\ db' = o.db /\ oid_counter' = o.oid_counter
            /\ UNCHANGED <<pc, arg, out>>

get_event_poster_(id) ==
    {list_media("event_posters", id, found, "/media/poster/", "No posters found") :
        found \in find_sorted("event_posters", "event_id", Str(validate_object_id(id).oid))}
get_event_poster == \E id \in IdStrings : \E outcome \in get_event_poster_(id) :
        LET o == outcome
        IN  /\ pc = "serve" /\ o.oid_counter <= MaxDocs
            /\ db' = o.db /\ oid_counter' = o.oid_counter
            /\ UNCHANGED <<pc, arg, out>>

download_event_poster_(id) == download_media("event_posters", id, "Poster not found")
download_event_poster == \E id \in IdStrings :
        LET o == download_event_poster_(id)
        IN  /\ pc = "serve" /\ o.oid_counter <= MaxDocs
            /\ db' = o.db /\ oid_counter' = o.oid_counter
            /\ UNCHANGED <<pc, arg, out>>

upload_promo_video_(id, file, now) ==
    upload_media("promo_videos", "event_id", "promo_video", id, file, now, TRUE,
                 "Promotional video uploaded", "Failed to upload video: ")
upload_promo_video ==
    \E id \in IdStrings, file \in UploadFiles, now \in Times :
        LET o == upload_promo_video_(id, file, now)
        IN  /\ pc = "serve" /\ o.oid_counter <= MaxDocs
            /\ db' = o.db /\ oid_counter' = o.oid_counter
            /\ UNCHANGED <<pc, arg, out>>

get_promo_video_(id) ==
    {list_media("promo_videos", id, found, "/media/video/", "No promo videos found") :
        found \in find_sorted("promo_videos", "event_id", Str(validate_object_id(id).oid))}
get_promo_video == \E id \in IdStrings : \E outcome \in get_promo_video_(id) :
        LET o == outcome
        IN  /\ pc = "serve" /\ o.oid_counter <= MaxDocs
            /\ db' = o.db /\ oid_counter' = o.oid_counter
            /\ UNCHANGED <<pc, arg, out>>

download_promo_video_(id) == download_media("promo_videos", id, "Video not found")
download_promo_video == \E id \in IdStrings :
        LET o == download_promo_video_(id)
        IN  /\ pc = "serve" /\ o.oid_counter <= MaxDocs
            /\ db' = o.db /\ oid_counter' = o.oid_counter
            /\ UNCHANGED <<pc, arg, out>>

upload_venue_photo_(id, file, now) ==
    upload_media("venue_photos", "venue_id", "venue_photo", id, file, now, FALSE,
                 "Venue photo uploaded", "Failed to upload photo: ")
upload_venue_photo ==
    \E id \in IdStrings, file \in UploadFiles, now \in Times :
        LET o == upload_venue_photo_(id, file, now)
        IN  /\ pc = "serve" /\ o.oid_counter <= MaxDocs
            /\ db' = o.db /\ oid_counter' = o.oid_counter
            /\ UNCHANGED <<pc, arg, out>>

get_venue_photo_(id) ==
    {list_media("venue_photos", id, found, "/media/photo/", "No venue photos found") :
        found \in find_sorted("venue_photos", "venue_id", Str(validate_object_id(id).oid))}
get_venue_photo == \E id \in IdStrings : \E outcome \in get_venue_photo_(id) :
        LET o == outcome
        IN  /\ pc = "serve" /\ o.oid_counter <= MaxDocs
            /\ db' = o.db /\ oid_counter' = o.oid_counter
            /\ UNCHANGED <<pc, arg, out>>

download_venue_photo_(id) == download_media("venue_photos", id, "Photo not found")
download_venue_photo == \E id \in IdStrings :
        LET o == download_venue_photo_(id)
        IN  /\ pc = "serve" /\ o.oid_counter <= MaxDocs
            /\ db' = o.db /\ oid_counter' = o.oid_counter
            /\ UNCHANGED <<pc, arg, out>>

\* ------------------------------------------------------- specification
Init ==
    /\ db = [c \in Collections |-> {}]
    /\ oid_counter = 0
    /\ pc = "serve"
    /\ arg = <<>>
    /\ out = <<>>

NextEntity ==
    \/ create_event \/ get_events \/ get_event \/ update_event \/ delete_event
    \/ register_attendee \/ get_attendees \/ get_attendee
    \/ update_attendee \/ delete_attendee
    \/ create_venue \/ get_venues \/ get_venue \/ update_venue \/ delete_venue
    \/ create_booking \/ get_bookings \/ get_booking
    \/ update_booking \/ delete_booking

NextMedia ==
    \/ upload_event_poster \/ get_event_poster \/ download_event_poster
    \/ upload_promo_video \/ get_promo_video \/ download_promo_video
    \/ upload_venue_photo \/ get_venue_photo \/ download_venue_photo

Next == NextEntity \/ NextMedia

\* every endpoint
Spec == Init /\ [][Next]_vars
\* the entity endpoints alone
EntitySpec == Init /\ [][NextEntity]_vars
\* the media endpoints alone
MediaSpec == Init /\ [][NextMedia]_vars

\* ------------------------------------------------------- sanitizer runs
\* One call of sanitize_string, or one call of sanitize_filename followed by
\* a second call on its result, on an input chosen at the start.
SanitizerChars == {"a", ".", "/", ":", " ", "NUL", "SOH", "DEL"}
ShortStrings == StringsUpTo(SanitizerChars, MaxStrLen)

\* inputs around the 5000-character ceiling of sanitize_string
LongStrings ==
    { Rep("a", MaxStringLength),
      Rep("a", MaxStringLength + 1),
      Rep(" ", MaxStringLength + 1),
      <<" ">> \o Rep("a", MaxStringLength),
      Rep("a", MaxStringLength) \o <<"NUL">>,
      <<"NUL", " ">> \o Rep("a", MaxStringLength) }

\* inputs around the 255-character limit of sanitize_filename
LongFilenames ==
    { Rep("a", MaxFilenameLength),
      Rep("a", MaxFilenameLength + 1),
      <<".", ".", "/">> \o Rep("a", MaxFilenameLength + 1),
      Rep("a", MaxFilenameLength - 1) \o <<".", ".", ".">>,
      Rep("a", MaxFilenameLength) \o <<":", ".">>,
      <<".">> \o Rep(":", MaxFilenameLength) \o <<".">> }

\* a client filename with a directory part, and the name it should become
SecretPath == <<".", ".", "/", "s", "e", "c", "r", "e", "t", ".", "j", "p", "g">>
SecretName == <<"s", "e", "c", "r", "e", "t", ".", "j", "p", "g">>

StringInputs == ShortStrings \cup LongStrings
FilenameInputs == ShortStrings \cup LongFilenames \cup {SecretPath}

InitSanitizer ==
    /\ db = [c \in Collections |-> {}]
    /\ oid_counter = 0
    /\ out = <<>>
    /\ \/ pc = "call_sanitize_string" /\ arg \in StringInputs
       \/ pc = "call_sanitize_filename" /\ arg \in FilenameInputs

call_sanitize_string ==
    /\ pc = "call_sanitize_string"
    /\ out' = <<sanitize_string(arg)>>
    /\ pc' = "sanitize_string_done"
    /\ UNCHANGED <<db, oid_counter, arg>>

call_sanitize_filename ==
    /\ pc = "call_sanitize_filename"
    /\ out' = <<sanitize_filename(arg)>>
    /\ pc' = "call_sanitize_filename_again"
    /\ UNCHANGED <<db, oid_counter, arg>>

call_sanitize_filename_again ==
    /\ pc = "call_sanitize_filename_again"
    /\ out' = Append(out, sanitize_filename(out[1]))
    /\ pc' = "sanitize_filename_done"
    /\ UNCHANGED <<db, oid_counter, arg>>

NextSanitizer ==
    \/ call_sanitize_string
    \/ call_sanitize_filename
    \/ call_sanitize_filename_again

SanitizerSpec == InitSanitizer /\ [][NextSanitizer]_vars

\* ---------------------------------------------------- concurrent requests
\* FastAPI runs each def handler in a worker thread: the requests of several
\* clients on the events collection are in progress together.  A request is
\* received, its identifier is validated, its one store call is made (the
\* store applies a call on one document atomically), and its answer is
\* returned from the result of the call; the steps of the clients interleave.
Clients == 1..NumClients

\* bodies that build an Event, so that update_event is called
ConcurrentBodies == {body \in EventBodies : EventModel[body].ok}

ConcurrentIds == {NthIdLower(1), NthIdLower(2)}

ConcurrentRequests ==
    {[method |-> "PUT", id |-> id, body |-> body] :
        id \in ConcurrentIds, body \in ConcurrentBodies}
    \cup {[method |-> "DELETE", id |-> id] : id \in ConcurrentIds \cup {<<"x">>}}

NoRequest == [method |-> "none", id |-> <<>>]
NoResult == [count |-> 0, status |-> 0]

\* the document create_event stores for a body, with the k-th ObjectId
EventDocument(body, k) ==
    [key \in DOMAIN EventModel[body].model \cup {"_id"} |->
        IF key = "_id" THEN NthObjectId(k) ELSE EventModel[body].model[key]]

\* the store after one POST /events
InitConcurrent ==
    /\ \E body \in ConcurrentBodies :
          db = [c \in Collections |->
                   IF c = "events" THEN {EventDocument(body, 1)} ELSE {}]
    /\ oid_counter = 1
    /\ pc = [p \in Clients |-> "idle"]
    /\ arg = [p \in Clients |-> NoRequest]
    /\ out = [p \in Clients |-> NoResult]

receive(p) ==
    /\ pc[p] = "idle"
    /\ \E request \in ConcurrentRequests : arg' = [arg EXCEPT ![p] = request]
    /\ pc' = [pc EXCEPT ![p] = "validate_object_id"]
    /\ UNCHANGED <<db, oid_counter, out>>

\* obj_id = validate_object_id(event_id)
call_validate_object_id(p) ==
    /\ pc[p] = "validate_object_id"
    /\ IF validate_object_id(arg[p].id).ok
       THEN /\ pc' = [pc EXCEPT ![p] = IF arg[p].method = "PUT"
                                       THEN "update_one" ELSE "delete_one"]
            /\ UNCHANGED out
       ELSE /\ pc' = [pc EXCEPT ![p] = "done"]
            /\ out' = [out EXCEPT ![p].status = InvalidIdFormat.resp.status]
    /\ UNCHANGED <<db, oid_counter, arg>>

\* result = db.events.update_one({"_id": obj_id}, {"$set": event.model_dump()})
update_event_update_one(p) ==
    /\ pc[p] = "update_one"
    /\ LET result == update_one("events", validate_object_id(arg[p].id).oid,
                                EventModel[arg[p].body].model)
       IN  /\ db' = result.db
           /\ out' = [out EXCEPT ![p].count = result.matched_count]
    /\ pc' = [pc EXCEPT ![p] = "update_event_return"]
    /\ UNCHANGED <<oid_counter, arg>>

\* if result.matched_count == 0: raise HTTPException(404); return {...}
update_event_return(p) ==
    /\ pc[p] = "update_event_return"
    /\ out' = [out EXCEPT ![p].status = IF out[p].count = 0 THEN 404 ELSE 200]
    /\ pc' = [pc EXCEPT ![p] = "done"]
    /\ UNCHANGED <<db, oid_counter, arg>>

\* result = db.events.delete_one({"_id": obj_id})
delete_event_delete_one(p) ==
    /\ pc[p] = "delete_one"
    /\ LET result == delete_one("events", validate_object_id(arg[p].id).oid)
       IN  /\ db' = result.db
           /\ out' = [out EXCEPT ![p].count = result.deleted_count]
    /\ pc' = [pc EXCEPT ![p] = "delete_event_return"]
    /\ UNCHANGED <<oid_counter, arg>>

\* if result.deleted_count == 0: raise HTTPException(404); return {...}
delete_event_return(p) ==
    /\ pc[p] = "delete_event_return"
    /\ out' = [out EXCEPT ![p].status = IF out[p].count = 0 THEN 404 ELSE 200]
    /\ pc' = [pc EXCEPT ![p] = "done"]
    /\ UNCHANGED <<db, oid_counter, arg>>

NextConcurrent ==
    \E p \in Clients :
        \/ receive(p)
        \/ call_validate_object_id(p)
        \/ update_event_update_one(p)
        \/ update_event_return(p)
        \/ delete_event_delete_one(p)
        \/ delete_event_return(p)

ConcurrentSpec == InitConcurrent /\ [][NextConcurrent]_vars

\* =========================================================== properties
\* The endpoints of each entity collection, by collection name.
Bodies(c) ==
    CASE c = "events" -> EventBodies [] c = "attendees" -> AttendeeBodies
      [] c = "venues" -> VenueBodies [] c = "bookings" -> BookingBodies
ModelOf(c, body) ==
    CASE c = "events" -> EventModel[body] [] c = "attendees" -> AttendeeModel[body]
      [] c = "venues" -> VenueModel[body] [] c = "bookings" -> BookingModel[body]
CreateOutcome(c, body, now) ==
    CASE c = "events" -> create_event_(body)
      [] c = "attendees" -> register_attendee_(body, now)
      [] c = "venues" -> create_venue_(body, now)
      [] c = "bookings" -> create_booking_(body, now)
GetOutcome(c, id) ==
    CASE c = "events" -> get_event_(id) [] c = "attendees" -> get_attendee_(id)
      [] c = "venues" -> get_venue_(id) [] c = "bookings" -> get_booking_(id)
UpdateOutcome(c, id, body) ==
    CASE c = "events" -> update_event_(id, body)
      [] c = "attendees" -> update_attendee_(id, body)
      [] c = "venues" -> update_venue_(id, body)
      [] c = "bookings" -> update_booking_(id, body)
DeleteOutcome(c, id) ==
    CASE c = "events" -> delete_event_(id)
      [] c = "attendees" -> delete_attendee_(id)
      [] c = "venues" -> delete_venue_(id)
      [] c = "bookings" -> delete_booking_(id)

ValidEventBodies == {body \in EventBodies : EventModel[body].ok}
ValidAttendeeBodies == {body \in AttendeeBodies : AttendeeModel[body].ok}
ValidVenueBodies == {body \in VenueBodies : VenueModel[body].ok}
ValidBookingBodies == {body \in BookingBodies : BookingModel[body].ok}
\* the bodies of Bodies(c) that pass validation
ValidBodies(c) ==
    CASE c = "events" -> ValidEventBodies
      [] c = "attendees" -> ValidAttendeeBodies
      [] c = "venues" -> ValidVenueBodies
      [] c = "bookings" -> ValidBookingBodies
WellFormedIds == {id \in IdStrings : ObjectIdValid(id)}
Ids(docs) == {d._id : d \in docs}
\* the documents of collection c with identifier oid in the store `store`
DocsIn(store, c, oid) == {d \in store[c] : d._id = oid}
\* the step taken is one that leaves what the outcome leaves
StepIs(outcome) == db' = outcome.db /\ oid_counter' = outcome.oid_counter
Issued(oid) == \E k \in 1..oid_counter : NthObjectId(k) = oid

\* the fields the validators pass through sanitize_string
SanitizedFields(c) ==
    CASE c = "events" -> {"name", "description", "date"}
      [] c = "attendees" -> {"name", "email", "phone"}
      [] c = "venues" -> {"name", "address"}
      [] c = "bookings" -> {"ticket_type"}
\* the server timestamp field of each collection
TimestampField(c) ==
    CASE c = "events" -> {} [] c = "attendees" -> {"registered_at"}
      [] c = "venues" -> {"created_at"} [] c = "bookings" -> {"booked_at"}
Without(doc, keys) == [k \in DOMAIN doc \ keys |-> doc[k]]

\* ----------------------------------------------------------------- C1
\* C1: a successful PUT on an existing entity document leaves exactly one
\* document with that identifier, in which every field of the model has the
\* value of the validated update body; a phone left out of an attendee update
\* is None afterwards, whatever it was; and the collection holds the same
\* identifiers as before.
C1_UpdateReplacesFields ==
    \A c \in EntityCollections : \A id \in IdStrings : \A body \in Bodies(c) :
        LET o == UpdateOutcome(c, id, body)
            oid == ObjectIdOf(id)
            after == DocsIn(o.db, c, oid)
        IN  o.resp.status = 200 =>
              /\ find_one(c, oid) # {}
              /\ Cardinality(after) = 1
              /\ \A d \in after :
                    /\ \A k \in DOMAIN ModelOf(c, body).model :
                          d[k] = ModelOf(c, body).model[k]
                    /\ (c = "attendees" /\ body.phone = NoneVal)
                          => d.phone = NoneVal
              /\ Ids(o.db[c]) = Ids(db[c])
              /\ \A c2 \in Collections \ {c} : o.db[c2] = db[c2]

\* An attendee stored with a phone exists, and a PUT whose body has no phone
\* succeeds on it and leaves its phone None.
C1_Witness ==
    \E d \in db["attendees"] : \E id \in IdStrings : \E body \in AttendeeBodies :
        /\ d.phone # NoneVal
        /\ ObjectIdValid(id) /\ ObjectIdOf(id) = d._id
        /\ body.phone = NoneVal
        /\ update_attendee_(id, body).resp.status = 200
        /\ \A e \in DocsIn(update_attendee_(id, body).db, "attendees", d._id) :
              e.phone = NoneVal /\ e.registered_at = d.registered_at

\* ----------------------------------------------------------------- C2
\* C2 as claimed: after a create that succeeds, a get of the returned
\* identifier returns the submitted body, field for field, once the
\* identifier and the timestamp are left out.
C2_CreateThenGetEqualsInput ==
    [][\A c \in EntityCollections : db'[c] # db[c] =>
         \A body \in ValidBodies(c) : \A now \in Times : \A id \in WellFormedIds :
            LET o == CreateOutcome(c, body, now)
            IN  (o.resp.status = 200 /\ o.resp.body.id = id /\ StepIs(o))
                => /\ GetOutcome(c, id)'.resp.status = 200
                   /\ Without(GetOutcome(c, id)'.resp.body,
                              {"_id"} \cup TimestampField(c)) = body]_vars

\* what the validators make of a body: NUL removed and surrounding
\* whitespace trimmed in the sanitized string fields, the rest as submitted
SanitizedBody(c, body) ==
    [k \in DOMAIN body |->
        IF k \notin SanitizedFields(c) THEN body[k]
        ELSE IF k = "phone"
        THEN (IF body[k] = NoneVal THEN NoneVal
              ELSE Some(Strip(RemoveNul(body[k][1]))))
        ELSE Strip(RemoveNul(body[k]))]

\* C2 as amended: after a create that succeeds, a get of the returned
\* identifier succeeds and returns the submitted body with its sanitized
\* string fields stripped of NUL and of surrounding whitespace, the other
\* fields as submitted, together with the identifier as a string and, except
\* for an event, the timestamp the create took.
C2_CreateThenGetEqualsSanitizedInput ==
    [][\A c \in EntityCollections : db'[c] # db[c] =>
         \A body \in ValidBodies(c) : \A now \in Times : \A id \in WellFormedIds :
            LET o == CreateOutcome(c, body, now)
            IN  (o.resp.status = 200 /\ o.resp.body.id = id /\ StepIs(o))
                => /\ GetOutcome(c, id)'.resp.status = 200
                   /\ Without(GetOutcome(c, id)'.resp.body,
                              {"_id"} \cup TimestampField(c))
                        = SanitizedBody(c, body)
                   /\ GetOutcome(c, id)'.resp.body._id = id
                   /\ \A f \in TimestampField(c) :
                         GetOutcome(c, id)'.resp.body[f] = now]_vars

\* A venue created from a body whose name had surrounding spaces is in the
\* store with the trimmed name, and a get returns it.
C2_Witness ==
    \E body \in VenueBodies : \E id \in WellFormedIds :
        /\ VenueModel[body].ok
        /\ body.name # Strip(RemoveNul(body.name))
        /\ get_venue_(id).resp.status = 200
        /\ Without(get_venue_(id).resp.body, {"_id", "created_at"})
             = SanitizedBody("venues", body)

\* ----------------------------------------------------------------- C3
Unchanged(o) == o.db = db /\ o.oid_counter = oid_counter
NotFound(o) == o.resp.status = 404 /\ Unchanged(o)

\* C3: in every store state and every entity collection, a get, an update
\* (with a body that passes validation) and a delete of a well-formed
\* identifier the collection does not hold answer 404 and leave the store as
\* it was.
C3_AbsentIdIsNotFound ==
    \A c \in EntityCollections : \A id \in WellFormedIds :
        find_one(c, ObjectIdOf(id)) = {} =>
            /\ NotFound(GetOutcome(c, id))
            /\ \A body \in ValidBodies(c) : NotFound(UpdateOutcome(c, id, body))
            /\ NotFound(DeleteOutcome(c, id))

\* The venues collection holds a document, another well-formed identifier is
\* not in it, and the three operations on that identifier answer 404.
C3_Witness ==
    \E id \in WellFormedIds :
        /\ db["venues"] # {}
        /\ find_one("venues", ObjectIdOf(id)) = {}
        /\ get_venue_(id).resp.status = 404
        /\ delete_venue_(id).resp.status = 404
        /\ \E body \in ValidBodies("venues") :
              update_venue_(id, body).resp.status = 404

\* ----------------------------------------------------------------- C4
\* C4: at every step that changes an entity collection, a DELETE of a
\* document that exists in it answers 200 and leaves a store without it, and
\* when the step is that DELETE, get, update and a second DELETE of the same
\* identifier answer 404 after it; an identifier that was issued and is not
\* in the collection is not in it after the step either, and get, update and
\* delete of it still answer 404.  (The answers for a collection depend on
\* that collection alone, so the steps that leave it as it was keep them.)
NotFoundAfterwards(c, id) ==
    /\ find_one(c, ObjectIdOf(id))' = {}
    /\ GetOutcome(c, id)'.resp.status = 404
    /\ DeleteOutcome(c, id)'.resp.status = 404
    /\ \A body \in ValidBodies(c) : UpdateOutcome(c, id, body)'.resp.status = 404

C4_DeletedStaysAbsent ==
    [][\A c \in EntityCollections : db'[c] # db[c] => \A id \in WellFormedIds :
            /\ find_one(c, ObjectIdOf(id)) # {}
                 => /\ DeleteOutcome(c, id).resp.status = 200
                    /\ DocsIn(DeleteOutcome(c, id).db, c, ObjectIdOf(id)) = {}
                    /\ StepIs(DeleteOutcome(c, id)) => NotFoundAfterwards(c, id)
            /\ (Issued(ObjectIdOf(id)) /\ find_one(c, ObjectIdOf(id)) = {})
                 => NotFoundAfterwards(c, id)]_vars

\* An identifier was issued to an entity document and the document has been
\* deleted since: no collection holds it, and a further delete answers 404.
C4_Witness ==
    \E id \in WellFormedIds :
        /\ Issued(ObjectIdOf(id))
        /\ \A c \in Collections : find_one(c, ObjectIdOf(id)) = {}
        /\ \A c \in EntityCollections : DeleteOutcome(c, id).resp.status = 404

\* ----------------------------------------------------------------- C5
InvalidIdentifier(o) ==
    /\ o.resp = [status |-> 400, body |-> [detail |-> "Invalid ID format"]]
    /\ o.calls = <<>>
    /\ Unchanged(o)

\* C5: for a malformed identifier, every handler that takes an identifier
\* (entity get, update and delete, media upload, media list and media
\* download) answers 400 "Invalid ID format" without having made a store call,
\* and leaves the store as it was.  An update is taken with a body that
\* passes validation, the handler being called with a model.
C5_MalformedIdRejectedBeforeStore ==
    \A id \in IdStrings : ~ObjectIdValid(id) =>
        /\ \A c \in EntityCollections :
              /\ InvalidIdentifier(GetOutcome(c, id))
              /\ InvalidIdentifier(DeleteOutcome(c, id))
              /\ \A body \in ValidBodies(c) :
                    InvalidIdentifier(UpdateOutcome(c, id, body))
        /\ \A file \in UploadFiles : \A now \in Times :
              /\ InvalidIdentifier(upload_event_poster_(id, file, now))
              /\ InvalidIdentifier(upload_promo_video_(id, file, now))
              /\ InvalidIdentifier(upload_venue_photo_(id, file, now))
        /\ \A o \in get_event_poster_(id) \cup get_promo_video_(id)
                      \cup get_venue_photo_(id) : InvalidIdentifier(o)
        /\ InvalidIdentifier(download_event_poster_(id))
        /\ InvalidIdentifier(download_promo_video_(id))
        /\ InvalidIdentifier(download_venue_photo_(id))

\* The store holds an event and a poster, and the handlers called with a
\* malformed identifier answer 400 without a store call.
C5_Witness ==
    \E id \in IdStrings :
        /\ ~ObjectIdValid(id)
        /\ db["events"] # {} /\ db["event_posters"] # {}
        /\ InvalidIdentifier(get_event_(id))
        /\ \E body \in ValidBodies("bookings") :
              InvalidIdentifier(update_booking_(id, body))
        /\ \E file \in UploadFiles : \E now \in Times :
              InvalidIdentifier(upload_event_poster_(id, file, now))
        /\ InvalidIdentifier(download_venue_photo_(id))

\* ----------------------------------------------------------------- C6
\* the response of an upload that was refused for want of a filename
MissingFilename(o) ==
    /\ o.resp.status = 400
    /\ o.resp.body.detail[2] = "Filename is required"
    /\ o.calls = <<>>
    /\ Unchanged(o)

\* C6: an upload of any of the three kinds to a well-formed identifier, with
\* a file whose filename is missing or empty, answers 400 "Filename is
\* required" and leaves the store as it was.
C6_UploadWithoutFilenameRejected ==
    \A id \in WellFormedIds : \A file \in UploadFiles : \A now \in Times :
        NoFilename(file) =>
            /\ MissingFilename(upload_event_poster_(id, file, now))
            /\ MissingFilename(upload_promo_video_(id, file, now))
            /\ MissingFilename(upload_venue_photo_(id, file, now))

\* ----------------------------------------------------------------- C7
\* C7: a second sanitize_filename, applied to the result of the first,
\* returns that result.
C7_SanitizeFilenameIdempotent ==
    pc = "sanitize_filename_done" => out[2] = out[1]

\* ----------------------------------------------------------------- C8
\* the characters sanitize_filename is to take out: the path separators, the
\* characters unsafe in a file name, and the given control characters
UnsafeChars == {"<", ">", ":", "QUOTE", "/", "BSL", "|", "?", "*"}
ControlCharsC0 == {"NUL", "SOH", "TAB"}
ControlChars == ControlCharsC0 \cup {"DEL"}

BareName(name, controls) ==
    /\ name # <<>>
    /\ Len(name) <= MaxFilenameLength
    /\ \A i \in 1..Len(name) : name[i] \notin UnsafeChars \cup controls
    /\ \A i \in 1..(Len(name) - 1) : ~(name[i] = "." /\ name[i + 1] = ".")

\* C8 as stated: the name sanitize_filename returns is non-empty, of at most
\* 255 characters, without path separator, unsafe character, control
\* character (DEL, U+007F, included) or ".."; "../secret.jpg" gives
\* "secret.jpg".
C8_FilenameIsBareName ==
    pc = "call_sanitize_filename_again" =>
        /\ BareName(out[1], ControlChars)
        /\ arg = SecretPath => out[1] = SecretName

\* C8, amended: the same with the control characters U+0000 to U+001F only;
\* DEL is kept.
C8_FilenameIsBareNameButForDel ==
    pc = "call_sanitize_filename_again" =>
        /\ BareName(out[1], ControlCharsC0)
        /\ arg = SecretPath => out[1] = SecretName
        /\ (arg # <<>> /\ \A i \in 1..Len(arg) : arg[i] = "DEL") => out[1] = arg

\* sanitize_filename has returned "secret.jpg" for "../secret.jpg".
C8_Witness ==
    /\ pc = "call_sanitize_filename_again"
    /\ arg = SecretPath
    /\ out[1] = SecretName

\* ----------------------------------------------------------------- C9
MetadataFields == {"id", "filename", "content_type", "uploaded_at", "download_url"}

\* the documents of collection c whose owner reference is the identifier id
OwnedBy(c, owner_field, id) ==
    {d \in db[c] : d[owner_field] = Str(ObjectIdOf(id))}

ListsOwned(o, owned, url_prefix) ==
    IF owned = {}
    THEN o.resp.status = 404 /\ Unchanged(o)
    ELSE /\ o.resp.status = 200
         /\ Unchanged(o)
         /\ Len(o.resp.body) = Cardinality(owned)
         /\ \A d \in owned : \E i \in 1..Len(o.resp.body) :
               /\ o.resp.body[i].id = Str(d._id)
               /\ o.resp.body[i].filename = d.filename
               /\ o.resp.body[i].content_type = d.content_type
               /\ o.resp.body[i].uploaded_at = d.uploaded_at
               /\ o.resp.body[i].download_url = <<url_prefix, Str(d._id)>>
         /\ \A i \in 1..Len(o.resp.body) :
               DOMAIN o.resp.body[i] = MetadataFields
         /\ \A i, j \in 1..Len(o.resp.body) :
               i < j => o.resp.body[i].uploaded_at >= o.resp.body[j].uploaded_at

\* C9: for every well-formed owner identifier, each list of a media kind
\* answers 404 when no document of the kind has that owner, and otherwise 200
\* with one entry for each document of that owner and no other entry, the
\* entries holding the five metadata fields and nothing else, in an order in
\* which no entry is older than the one after it; the store is unchanged.
C9_ListForOwner ==
    \A id \in WellFormedIds :
        /\ \A o \in get_event_poster_(id) :
              ListsOwned(o, OwnedBy("event_posters", "event_id", id),
                         "/media/poster/")
        /\ \A o \in get_promo_video_(id) :
              ListsOwned(o, OwnedBy("promo_videos", "event_id", id),
                         "/media/video/")
        /\ \A o \in get_venue_photo_(id) :
              ListsOwned(o, OwnedBy("venue_photos", "venue_id", id),
                         "/media/photo/")

\* An owner has two venue photos uploaded at different times, and the list
\* answers 200 with the later one first.
C9_Witness ==
    \E id \in WellFormedIds : \E o \in get_venue_photo_(id) :
        /\ Cardinality(OwnedBy("venue_photos", "venue_id", id)) = 2
        /\ o.resp.status = 200
        /\ o.resp.body[1].uploaded_at > o.resp.body[2].uploaded_at

\* ---------------------------------------------------------------- C10
\* the control characters of the inputs that are not whitespace
StrippedControlChars == {"NUL", "SOH", "DEL"}

\* C10 as stated: with t the argument without its control characters and
\* then trimmed, sanitize_string raises when t is longer than 5000
\* characters and returns t otherwise.
C10_StripTrimThenCeiling ==
    pc = "sanitize_string_done" =>
        LET t == Strip(SelectSeq(arg, LAMBDA c : c \notin StrippedControlChars))
        IN  IF Len(t) > MaxStringLength
            THEN ~out[1].ok
            ELSE out[1].ok /\ out[1].value = t

\* C10, amended: sanitize_string raises exactly when the argument has more
\* than 5000 characters other than NUL, leading and trailing whitespace
\* counted; otherwise it returns the argument without its NULs and without
\* the whitespace around them: the result has no NUL, neither begins nor
\* ends with whitespace, and the other characters of the argument around it
\* are all whitespace.  The other control characters are kept.
C10_CeilingThenTrim ==
    pc = "sanitize_string_done" =>
        LET v == RemoveNul(arg)
            r == out[1].value
            n == Len(r)
        IN  IF Cardinality({i \in 1..Len(arg) : arg[i] # "NUL"}) > MaxStringLength
            THEN ~out[1].ok
            ELSE /\ out[1].ok
                 /\ \A i \in 1..n : r[i] \notin {"NUL"}
                 /\ n > 0 => r[1] \notin Whitespace /\ r[n] \notin Whitespace
                 /\ \A c \in {"SOH", "DEL"} :
                       Cardinality({i \in 1..n : r[i] = c})
                          = Cardinality({i \in 1..Len(arg) : arg[i] = c})
                 /\ \E lead \in 0..(Len(v) - n) :
                       /\ r = SubSeq(v, lead + 1, lead + n)
                       /\ \A k \in 1..lead : v[k] \in Whitespace
                       /\ \A k \in (lead + n + 1)..Len(v) : v[k] \in Whitespace

\* sanitize_string has raised for an argument that is within the ceiling
\* once trimmed.
C10_Witness ==
    /\ pc = "sanitize_string_done"
    /\ Len(Strip(RemoveNul(arg))) <= MaxStringLength
    /\ ~out[1].ok

\* ---------------------------------------------------------------- C11
\* C11: at every step of any endpoint, each media record the store holds is
\* in the store after the step, with the same identifier, filename, content
\* type, kind tag, owner reference, bytes and upload time.
C11_MediaAppendOnly ==
    [][\A c \in MediaCollections : db[c] \subseteq db'[c]]_vars

\* A venue photo is stored whose venue was created and has been deleted: the
\* venue's identifier was issued and no document has it.
C11_Witness ==
    \E id \in WellFormedIds :
        /\ Issued(ObjectIdOf(id))
        /\ \A c \in Collections : find_one(c, ObjectIdOf(id)) = {}
        /\ \E d \in db["venue_photos"] : d.venue_id = Str(ObjectIdOf(id))

\* ---------------------------------------------------------------- C12
\* the documents of the store that refer to the identifier id
ReferringTo(id) ==
    {d \in db["bookings"] \cup db["event_posters"] \cup db["promo_videos"] :
        d.event_id = Str(ObjectIdOf(id))}
    \cup {d \in db["venue_photos"] : d.venue_id = Str(ObjectIdOf(id))}

\* C12: a DELETE of an event or a venue that exists answers 200, whether or
\* not a booking or a media record refers to it, and leaves a store that
\* differs from the present one by that one document alone: its collection
\* has lost it and nothing else, and every other collection is as it was.
C12_DeleteRemovesOneDocument ==
    \A c \in {"events", "venues"} : \A id \in WellFormedIds :
        find_one(c, ObjectIdOf(id)) # {} =>
            LET o == DeleteOutcome(c, id)
            IN  /\ o.resp.status = 200
                /\ o.db[c] = db[c] \ find_one(c, ObjectIdOf(id))
                /\ Cardinality(o.db[c]) = Cardinality(db[c]) - 1
                /\ \A k \in Collections \ {c} : o.db[k] = db[k]
                /\ ReferringTo(id) \subseteq UNION {o.db[k] : k \in Collections}

\* An event exists that a booking or a media record refers to, and its
\* DELETE answers 200 and keeps the referring document.
C12_Witness ==
    \E id \in WellFormedIds :
        /\ find_one("events", ObjectIdOf(id)) # {}
        /\ ReferringTo(id) # {}
        /\ delete_event_(id).resp.status = 200
        /\ \A d \in ReferringTo(id) :
              \E k \in Collections : d \in delete_event_(id).db[k]

\* ---------------------------------------------------------------- C13
\* the collections whose documents carry a creation timestamp
TimestampedCollections == {"attendees", "venues", "bookings"}
\* the name of the creation timestamp of the documents of collection c
CreationTimestamp(c) == CHOOSE k \in TimestampField(c) : TRUE

\* C13: at every step that changes a collection of attendees, venues or
\* bookings, a document that is in the collection before and after the step
\* has the same creation timestamp after it, a document the step has added
\* has a creation timestamp, and when the step is a PUT of an existing
\* document with a valid body, the PUT answers 200 and a get of the document
\* after it returns the timestamp the document had before.
C13_CreationTimestampKept ==
    [][\A c \in TimestampedCollections : db'[c] # db[c] =>
         /\ \A d \in db[c] : \A e \in db'[c] :
               e._id = d._id =>
                  /\ CreationTimestamp(c) \in DOMAIN e
                  /\ e[CreationTimestamp(c)] = d[CreationTimestamp(c)]
         /\ \A e \in db'[c] :
               e._id \notin Ids(db[c]) =>
                  /\ CreationTimestamp(c) \in DOMAIN e
                  /\ e[CreationTimestamp(c)] \in Times
         /\ \A d \in db[c] : \A body \in ValidBodies(c) :
               StepIs(UpdateOutcome(c, Str(d._id), body)) =>
                  /\ UpdateOutcome(c, Str(d._id), body).resp.status = 200
                  /\ GetOutcome(c, Str(d._id))'.resp.status = 200
                  /\ GetOutcome(c, Str(d._id))'.resp.body[CreationTimestamp(c)]
                        = d[CreationTimestamp(c)]]_vars

\* A venue created at the latest time exists, and a PUT with a valid body
\* answers 200 and changes its fields but not its created_at.
C13_Witness ==
    \E d \in db["venues"] : \E body \in ValidBodies("venues") :
        LET o == update_venue_(Str(d._id), body)
        IN  /\ d.created_at = MaxTime
            /\ o.resp.status = 200
            /\ o.db # db
            /\ \E e \in o.db["venues"] :
                  e._id = d._id /\ e.address # d.address /\ e.created_at = d.created_at

\* ---------------------------------------------------------------- C14
\* the clients whose request is the given method on the identifier id
Requesting(method, id) ==
    {p \in Clients : arg[p].method = method /\ arg[p].id = id}

\* the store call of client p has been made
Called(p) ==
    \/ pc[p] \in {"update_event_return", "delete_event_return"}
    \/ pc[p] = "done" /\ out[p].status # 400

\* C14: in every state of every interleaving of the clients' PUT and DELETE
\* requests on an event identifier: a document in the collection has an
\* identifier that a create issued; once a store call for the identifier has
\* matched nothing, or a delete_one has deleted its document, no document
\* has that identifier, so that no PUT has created one; a request that is
\* answered is answered 200 when its store call matched the document and 404
\* when it matched nothing, and a PUT on an event that existed is answered
\* 404 only when a DELETE removed the event before; and when every DELETE of
\* an event that existed is answered, exactly one of them is answered 200,
\* the others 404, and the event is absent.
C14_PutNeverCreates ==
    \A id \in ConcurrentIds :
        LET oid == ObjectIdOf(id)
            present == find_one("events", oid) # {}
            puts == Requesting("PUT", id)
            deletes == Requesting("DELETE", id)
        IN  /\ present => Issued(oid)
            /\ \A p \in puts \cup deletes :
                  (Called(p) /\ out[p].count = 0) => ~present
            /\ \A p \in deletes : (Called(p) /\ out[p].count = 1) => ~present
            /\ \A p \in puts \cup deletes :
                  pc[p] = "done" =>
                     \/ out[p].status = 200 /\ out[p].count = 1
                     \/ out[p].status = 404 /\ out[p].count = 0
            /\ \A p \in puts :
                  (Issued(oid) /\ pc[p] = "done" /\ out[p].status = 404) =>
                     \E q \in deletes : Called(q) /\ out[q].count = 1
            /\ (Issued(oid) /\ deletes # {} /\ \A q \in deletes : pc[q] = "done") =>
                  /\ Cardinality({q \in deletes : out[q].status = 200}) = 1
                  /\ \A q \in deletes : out[q].status \in {200, 404}
                  /\ ~present

\* A PUT and a DELETE of the event that existed are both answered: the PUT
\* came after the deletion and is answered 404, the DELETE 200.
C14_Witness ==
    \E id \in ConcurrentIds :
        /\ Issued(ObjectIdOf(id))
        /\ \E p \in Requesting("PUT", id) : pc[p] = "done" /\ out[p].status = 404
        /\ \E q \in Requesting("DELETE", id) : pc[q] = "done" /\ out[q].status = 200
        /\ find_one("events", ObjectIdOf(id)) = {}

====
